---------------------------- MODULE Spec2Model ----------------------------
(***************************************************************************)
(* Ingestion pipeline of VotingAid_DB_Manager (populate_database.py):      *)
(* DatabaseManager construction, save_data, process_txt, chunk id          *)
(* resolution, metadata composition and the upsert into the Chroma         *)
(* collection of a topic.                                                  *)
(*                                                                         *)
(* Python values are tagged tuples so that None, strings and integers can  *)
(* live in the same dict: <<"NoneType">>, <<"str", s>>, <<"int", n>>.      *)
(* A dict is a function from its keys to values; a text body is a sequence *)
(* of one-character strings.                                               *)
(***************************************************************************)
EXTENDS Integers, Sequences, FiniteSets, TLC

VARIABLES
    data_dir,         \* topic_dir/documents: "missing" or [file name -> body]
    topic_files,      \* metadata.json, url_mapping.yml, ids.yaml, context_data.yaml
    chroma,           \* topic_dir/chroma: the collection, [id -> record]
    pc,               \* position of the caller: idle, constructed, saving, done, error
    error,            \* the exception that ended the run, or "none"
    run,              \* number of runs started so far
    reset,            \* the reset argument of the current run
    context_data,     \* self.context_data
    metadata_entries, \* self.metadata_entries
    url_mapping,      \* self.url_mapping
    predefined_ids,   \* self.predefined_ids
    separate_in_chunks, \* self.separate_in_chunks
    chunk_size,       \* self.chunk_size
    txt_files,        \* save_data: the files still to process
    doc_chunks,       \* save_data: the documents of the current file still to add
    added,            \* number of add_to_chroma calls of the current run
    failed,           \* number of them the index adapter failed
    before,           \* the collection as it was when the current run started
    arg,              \* argument of the last direct call of a method
    ret,              \* its result
    content_list,     \* seperate_pdf_into_chapters.main: the sections
    index_i,          \* main: the loop variable i
    back_flag         \* main: back_flag

vars == <<data_dir, topic_files, chroma, pc, error, run, reset, context_data,
          metadata_entries, url_mapping, predefined_ids, separate_in_chunks,
          chunk_size, txt_files, doc_chunks, added, failed, before, arg,
          ret, content_list, index_i, back_flag>>

\* the variables of the chapter review, and those it never touches
reviewVars == <<content_list, index_i, back_flag>>
ingestVars == <<data_dir, topic_files, chroma, run, reset, context_data,
                metadata_entries, url_mapping, predefined_ids, separate_in_chunks,
                chunk_size, txt_files, doc_chunks, added, failed, before, arg, ret>>

-----------------------------------------------------------------------------
(* Python values *)

None == <<"NoneType">>
PyStr(s) == <<"str", s>>
PyInt(n) == <<"int", n>>

\* str(v), as an f-string renders a value
PyFormat(v) ==
    IF v[1] = "NoneType" THEN "None"
    ELSE IF v[1] = "int" THEN ToString(v[2])
    ELSE v[2]

\* dict.get(key, None)
DictGet(d, key) == IF key \in DOMAIN d THEN d[key] ELSE None

\* dict.update(other): the entries of other override those of d
DictUpdate(d, other) == other @@ d

\* dict.get(key, default)
DictGetOr(d, key, default) == IF key \in DOMAIN d THEN d[key] ELSE default

EmptyDict == [k \in {} |-> None]

-----------------------------------------------------------------------------
(* Identifier resolution *)

\* calculate_chunk_id with the url looked up before the document name
ChunkIdOf_UrlFirst(metadata, ids) ==
    LET source == DictGet(metadata, "doc_name")
        url == DictGet(metadata, "url")
        chunk_number == DictGet(metadata, "chunk_number")
    IN  IF url \in DOMAIN ids THEN ids[url]
        ELSE IF source \in DOMAIN ids THEN ids[source]
        ELSE PyStr(PyFormat(chunk_number) \o "|" \o PyFormat(url) \o "|" \o PyFormat(source))

\* calculate_chunk_id with the fallback's fields in the order source, url, number
ChunkIdOf_SourceFirst(metadata, ids) ==
    LET source == DictGet(metadata, "doc_name")
        url == DictGet(metadata, "url")
        chunk_number == DictGet(metadata, "chunk_number")
    IN  IF source \in DOMAIN ids THEN ids[source]
        ELSE IF url \in DOMAIN ids THEN ids[url]
        ELSE PyStr(PyFormat(source) \o "|" \o PyFormat(url) \o "|" \o PyFormat(chunk_number))

\* the id calculate_chunk_id resolves for a metadata dict
ChunkIdOf(metadata, ids) ==
    LET source == DictGet(metadata, "doc_name")
        url == DictGet(metadata, "url")
        chunk_number == DictGet(metadata, "chunk_number")
    IN  IF source \in DOMAIN ids THEN ids[source]
        ELSE IF url \in DOMAIN ids THEN ids[url]
        ELSE PyStr(PyFormat(chunk_number) \o "|" \o PyFormat(url) \o "|" \o PyFormat(source))

calculate_chunk_id(metadata, ids) ==
    DictUpdate(metadata, [id |-> ChunkIdOf(metadata, ids)])

-----------------------------------------------------------------------------
(* Text bodies and the text splitter.  self.text_splitter is a             *)
(* RecursiveCharacterTextSplitter built with chunk_size only, so it runs    *)
(* with its defaults: separators "\n\n", "\n", " ", "", keep_separator,     *)
(* strip_whitespace, len as the length function and the default overlap.    *)

\* the splitter's default chunk_overlap, on the scale of the model's chunk sizes
ChunkOverlap == 1

Separators == << <<"\n", "\n">>, <<"\n">>, <<" ">>, <<>> >>

Whitespace == {" ", "\n"}

RECURSIVE Flatten(_)
Flatten(seqs) == IF seqs = <<>> THEN <<>> ELSE Head(seqs) \o Flatten(Tail(seqs))

\* index of the first occurrence of sep in text, 0 when there is none
FirstMatch(text, sep) ==
    LET hits == {i \in 1..(Len(text) - Len(sep) + 1) :
                    SubSeq(text, i, i + Len(sep) - 1) = sep}
    IN  IF hits = {} THEN 0 ELSE CHOOSE i \in hits : \A j \in hits : i <= j

\* re.split(separator, text): the pieces between the matches, left to right
RECURSIVE ReSplit(_, _)
ReSplit(text, sep) ==
    LET i == FirstMatch(text, sep)
    IN  IF i = 0 THEN <<text>>
        ELSE <<SubSeq(text, 1, i - 1)>>
             \o ReSplit(SubSeq(text, i + Len(sep), Len(text)), sep)

\* _split_text_with_regex with keep_separator: each separator stays at the
\* start of the piece that follows it; empty pieces are dropped
SplitTextWithRegex(text, sep) ==
    LET pieces == IF sep = <<>> THEN [i \in 1..Len(text) |-> <<text[i]>>]
                  ELSE LET raw == ReSplit(text, sep)
                       IN  [i \in 1..Len(raw) |->
                               IF i = 1 THEN raw[1] ELSE sep \o raw[i]]
    IN  SelectSeq(pieces, LAMBDA s : s # <<>>)

\* str.strip()
RECURSIVE LStrip(_)
LStrip(text) ==
    IF text # <<>> /\ Head(text) \in Whitespace THEN LStrip(Tail(text)) ELSE text

RECURSIVE RStrip(_)
RStrip(text) ==
    IF text # <<>> /\ text[Len(text)] \in Whitespace
    THEN RStrip(SubSeq(text, 1, Len(text) - 1)) ELSE text

Strip(text) == LStrip(RStrip(text))

\* _join_docs with separator "": the documents it yields (none when the
\* stripped text is empty)
JoinDocs(current_doc) ==
    LET text == Strip(Flatten(current_doc))
    IN  IF text = <<>> THEN <<>> ELSE <<text>>

SumLen(seqs) == Len(Flatten(seqs))

\* the while loop of _merge_splits: drop pieces from the front of current_doc
\* until the overlap and the next piece fit
RECURSIVE PopFront(_, _, _)
PopFront(current_doc, len, size) ==
    LET total == SumLen(current_doc)
    IN  IF total > ChunkOverlap \/ (total + len > size /\ total > 0)
        THEN PopFront(Tail(current_doc), len, size)
        ELSE current_doc

\* _merge_splits(splits, ""): state is <<docs, current_doc>>
RECURSIVE MergeLoop(_, _, _, _)
MergeLoop(splits, docs, current_doc, size) ==
    IF splits = <<>> THEN docs \o JoinDocs(current_doc)
    ELSE LET d == Head(splits)
             total == SumLen(current_doc)
         IN  IF total + Len(d) > size /\ Len(current_doc) > 0
             THEN MergeLoop(Tail(splits), docs \o JoinDocs(current_doc),
                            Append(PopFront(current_doc, Len(d), size), d), size)
             ELSE MergeLoop(Tail(splits), docs, Append(current_doc, d), size)

merge_splits(splits, size) == MergeLoop(splits, <<>>, <<>>, size)

\* the separator _split_text picks: the first one that is "" or occurs in text
RECURSIVE PickSeparator(_, _)
PickSeparator(text, k) ==
    IF k >= Len(Separators) THEN Len(Separators)
    ELSE IF Separators[k] = <<>> \/ FirstMatch(text, Separators[k]) # 0 THEN k
    ELSE PickSeparator(text, k + 1)

\* _split_text(text, separators[k..]) and its loop over the splits; the loop
\* state is <<final_chunks, _good_splits>>
RECURSIVE split_text_from(_, _, _)
RECURSIVE SplitLoop(_, _, _, _, _)
SplitLoop(splits, final_chunks, good_splits, k, size) ==
    IF splits = <<>>
    THEN IF good_splits # <<>> THEN final_chunks \o merge_splits(good_splits, size)
         ELSE final_chunks
    ELSE LET s == Head(splits)
         IN  IF Len(s) < size
             THEN SplitLoop(Tail(splits), final_chunks, Append(good_splits, s), k, size)
             ELSE LET flushed == IF good_splits # <<>>
                                 THEN final_chunks \o merge_splits(good_splits, size)
                                 ELSE final_chunks
                      \* new_separators is empty when "" was picked or none is left
                      more == IF Separators[k] = <<>> \/ k = Len(Separators)
                              THEN <<s>>
                              ELSE split_text_from(s, k + 1, size)
                  IN  SplitLoop(Tail(splits), flushed \o more, <<>>, k, size)

split_text_from(text, k0, size) ==
    LET k == PickSeparator(text, k0)
    IN  SplitLoop(SplitTextWithRegex(text, Separators[k]), <<>>, <<>>, k, size)

\* text_splitter.split_text(text)
split_text(text, size) == split_text_from(text, 1, size)

\* process_txt's content_chunks
ContentChunks(content, separate, size) ==
    IF separate THEN split_text(content, size) ELSE <<content>>

-----------------------------------------------------------------------------
(* Side tables.  A file of the topic directory is <<"absent">> or          *)
(* <<"file", parsed content>>.                                              *)

Absent == <<"absent">>
File(content) == <<"file", content>>

\* an exception leaving a method
Raise(name) == <<"raise", name>>
Raised(v) == v[1] = "raise"
\* a value returned by a method that can also raise
Return(v) == <<"return", v>>

\* load_url_mapping: yaml.safe_load(file).get('documents', {}), {} when absent
load_url_mapping(file) ==
    IF file = Absent THEN EmptyDict ELSE DictGetOr(file[2], "documents", EmptyDict)

\* get_predefined_ids: the parsed file, {} when absent
get_predefined_ids(file) ==
    IF file = Absent THEN EmptyDict ELSE file[2]

\* open_context_data: the parsed file, {'files': {}} when it parses to
\* nothing, None when the file is absent
open_context_data(file) ==
    IF file = Absent THEN None
    ELSE IF DOMAIN file[2] = {} THEN <<"dict", [files |-> EmptyDict]>>
    ELSE <<"dict", file[2]>>

\* load_metadata_entries: json.load of metadata.json, FileNotFoundError when absent
load_metadata_entries(file) ==
    IF file = Absent THEN Raise("FileNotFoundError") ELSE Return(file[2])

\* get_context_from_filename(filename), filename already a basename
get_context_from_filename(ctx, basename) ==
    IF ctx = None THEN Raise("TypeError")
    ELSE IF "files" \notin DOMAIN ctx[2] THEN Raise("KeyError")
    ELSE IF basename \in DOMAIN ctx[2].files
         THEN DictGet(ctx[2].files[basename], "context")
         ELSE None

\* get_base_url_from_filename(filename)
get_base_url_from_filename(ctx, basename) ==
    IF ctx = None THEN Raise("TypeError")
    ELSE IF "files" \notin DOMAIN ctx[2] THEN Raise("KeyError")
    ELSE IF basename \in DOMAIN ctx[2].files
         THEN DictGet(ctx[2].files[basename], "base_url")
         ELSE None

-----------------------------------------------------------------------------
(* Metadata composition *)

\* a file of the documents directory is <<stem, extension>>
Basename(name) == name[1] \o name[2]

\* find_metadata_for_txt: the first entry of metadata.json for the file,
\* without its txt_file key; {} when there is none
find_metadata_for_txt(entries, txt_file) ==
    LET hits == {i \in 1..Len(entries) : entries[i]["txt_file"] = PyStr(txt_file)}
    IN  IF hits = {} THEN EmptyDict
        ELSE LET e == entries[CHOOSE i \in hits : \A j \in hits : i <= j]
             IN  [k \in DOMAIN e \ {"txt_file"} |-> e[k]]

StartsWith(line, prefix) ==
    Len(line) >= Len(prefix) /\ SubSeq(line, 1, Len(prefix)) = prefix

FilenameMarker == <<"F", "i", "l", "e", "n", "a", "m", "e", ":">>
BranchMarker == <<"B", "r", "a", "n", "c", "h", ":">>
\* the grave accent character, which a TLA+ string cannot hold
Grave == "GRAVE"
CodeMarker == <<Grave, Grave, Grave>>

\* load_txt_metadata's type with the Branch: line looked for on any of the
\* first three lines
TypeOf_BranchOnAnyEarlyLine(content) ==
    LET lines == ReSplit(content, <<"\n">>)
        has_filename == Len(lines) > 0 /\ StartsWith(lines[1], FilenameMarker)
        has_branch == \E i \in 1..3 : Len(lines) >= i /\ StartsWith(lines[i], BranchMarker)
        has_code_marker == FirstMatch(content, CodeMarker) # 0
    IN  IF has_filename /\ has_branch /\ has_code_marker THEN "code" ELSE "text"

\* the type load_txt_metadata gives a body
TypeOf(content) ==
    LET lines == ReSplit(content, <<"\n">>)
        has_filename == Len(lines) > 0 /\ StartsWith(lines[1], FilenameMarker)
        has_branch == Len(lines) > 2 /\ StartsWith(lines[3], BranchMarker)
        has_code_marker == FirstMatch(content, CodeMarker) # 0
    IN  IF has_filename /\ has_branch /\ has_code_marker THEN "code" ELSE "text"

load_txt_metadata(name, content, chunk_number, entries, urls, ids) ==
    LET doc_name == Basename(name)
        url == DictGet(urls, doc_name)
        metadata == DictUpdate(find_metadata_for_txt(entries, doc_name),
                               [url |-> url, doc_name |-> PyStr(doc_name),
                                type |-> PyStr(TypeOf(content)),
                                chunk_number |-> PyInt(chunk_number)])
    IN  calculate_chunk_id(metadata, ids)

\* clean_metadata that returns the dict as it is
clean_metadata_Keep(metadata) == metadata

clean_metadata(metadata) ==
    [k \in {x \in DOMAIN metadata : metadata[x] # None} |-> metadata[k]]

\* process_txt: the documents of one file, or the KeyError of metadata["id"]
\* when cleaning removed the id
process_txt(name, content, separate, size, entries, urls, ids) ==
    LET content_chunks == ContentChunks(content, separate, size)
        meta(i) == clean_metadata(
                       load_txt_metadata(name, content, i - 1, entries, urls, ids))
    IN  IF \E i \in 1..Len(content_chunks) : "id" \notin DOMAIN meta(i)
        THEN Raise("KeyError")
        ELSE Return([i \in 1..Len(content_chunks) |->
                           [page_content |-> content_chunks[i],
                            id |-> meta(i)["id"],
                            metadata |-> meta(i)]])

-----------------------------------------------------------------------------
(* The index and the run *)

\* clear_database that leaves the directory in place
clear_database_Noop(collection) == collection

\* clear_database: shutil.rmtree of the chroma directory
clear_database(collection) == EmptyDict

\* add_to_chroma that inserts new ids only and keeps an existing record
add_to_chroma_InsertOnly(collection, doc, n) ==
    collection @@ (doc.id :> [page_content |-> doc.page_content,
                              metadata |-> doc.metadata, run |-> n])

\* add_to_chroma: Chroma.add_documents upserts the document under its id; the
\* record remembers the run that wrote it
add_to_chroma(collection, doc, n) ==
    (doc.id :> [page_content |-> doc.page_content,
                metadata |-> doc.metadata, run |-> n]) @@ collection

\* __init__ clearing the database whatever reset is
ResetIfAsked_Always(r, collection) == EmptyDict

\* __init__: "if reset: self.clear_database()"
ResetIfAsked(r, collection) ==
    IF r THEN clear_database(collection) ELSE collection

Missing == <<"missing">>
Dir(files) == <<"dir", files>>

\* extract_txt_from_pdf: every .pdf without a .txt beside it gets one holding
\* the text of its pages
extract_txt_from_pdf(files) ==
    LET pdf_files == {f \in DOMAIN files : f[2] = ".pdf"}
        new == {<<f[1], ".txt">> : f \in pdf_files} \ DOMAIN files
    IN  [t \in new |-> files[<<t[1], ".pdf">>]] @@ files

\* the .txt files os.listdir finds
TxtFiles(files) == {f \in DOMAIN files : f[2] = ".txt"}

\* the orders os.listdir may return a set of files in
Orders(S) ==
    {o \in [1..Cardinality(S) -> S] : \A i, j \in DOMAIN o : o[i] = o[j] => i = j}

-----------------------------------------------------------------------------
(* Bounds and inputs *)

MaxRuns == 2
MaxChunkSize == 2

Short == <<"a">>
Long == <<"a", " ", "b", "\n">>

A_txt == <<"a", ".txt">>
B_txt == <<"b", ".txt">>
B_pdf == <<"b", ".pdf">>

DataDirs ==
    { Missing,
      Dir(EmptyDict),
      Dir(A_txt :> Short),
      Dir(A_txt :> Long),
      Dir((A_txt :> Long) @@ (B_txt :> Short)),
      Dir((A_txt :> Short) @@ (B_pdf :> Long)),
      Dir((B_txt :> Short) @@ (B_pdf :> Long)) }

MetadataFiles ==
    { Absent,
      File(<<>>),
      File(<<[txt_file |-> PyStr("a.txt"), title |-> PyStr("T"), page |-> None]>>) }

UrlMappingFiles ==
    { Absent,
      File([documents |-> ("a.txt" :> PyStr("u"))]),
      File([documents |-> ("a.txt" :> PyStr("u")) @@ ("b.txt" :> PyStr("u"))]) }

IdsFiles ==
    { Absent,
      File(PyStr("a.txt") :> PyStr("P")),
      File(PyStr("u") :> PyStr("P")),
      File(PyStr("a.txt") :> None) }

ContextFiles ==
    { Absent,
      File([files |-> ("a.txt" :> [context |-> PyStr("c")])]) }

\* a record an earlier ingestion left for a document that is gone since
StaleId == PyStr("0|None|old.txt")
StaleRecord ==
    [page_content |-> Short,
     metadata |-> [doc_name |-> PyStr("old.txt"), type |-> PyStr("text"),
                   chunk_number |-> PyInt(0), id |-> StaleId],
     run |-> 0]

Collections == { EmptyDict, StaleId :> StaleRecord }

\* separate_in_chunks and chunk_size of the managers of a deployment
Configs ==
    {<<TRUE, n>> : n \in 1..MaxChunkSize} \cup {<<FALSE, MaxChunkSize>>}

-----------------------------------------------------------------------------
(* The state machine *)

\* no chapter review is running
NoReview == content_list = <<>> /\ index_i = 0 /\ back_flag = FALSE

NoCall == <<"none">>

Init ==
    /\ NoReview
    /\ data_dir \in DataDirs
    /\ topic_files \in [metadata_json : MetadataFiles,
                        url_mapping_yml : UrlMappingFiles,
                        ids_yaml : IdsFiles,
                        context_data_yaml : ContextFiles]
    /\ chroma \in Collections
    /\ \E c \in Configs : separate_in_chunks = c[1] /\ chunk_size = c[2]
    /\ pc = "idle"
    /\ error = "none"
    /\ run = 0
    /\ reset = FALSE
    /\ context_data = None
    /\ metadata_entries = <<>>
    /\ url_mapping = EmptyDict
    /\ predefined_ids = EmptyDict
    /\ txt_files = <<>>
    /\ doc_chunks = <<>>
    /\ added = 0
    /\ failed = 0
    /\ before = [records |-> chroma, complete |-> FALSE]
    /\ arg = NoCall
    /\ ret = NoCall

\* populate_db up to the constructed manager: DatabaseManager.__init__
Construct(r) ==
    /\ UNCHANGED reviewVars
    /\ pc \in {"idle", "done", "error"}
    /\ run < MaxRuns
    /\ run' = run + 1
    /\ reset' = r
    /\ before' = [records |-> chroma, complete |-> pc = "done"]
    /\ added' = 0
    /\ failed' = 0
    /\ txt_files' = <<>>
    /\ doc_chunks' = <<>>
    /\ arg' = NoCall
    /\ ret' = NoCall
    /\ context_data' = open_context_data(topic_files.context_data_yaml)
    /\ LET entries == load_metadata_entries(topic_files.metadata_json)
       IN  IF Raised(entries)
           THEN /\ pc' = "error"
                /\ error' = entries[2]
                /\ UNCHANGED <<chroma, metadata_entries, url_mapping, predefined_ids>>
           ELSE /\ metadata_entries' = entries[2]
                /\ chroma' = ResetIfAsked(r, chroma)
                /\ url_mapping' = load_url_mapping(topic_files.url_mapping_yml)
                /\ predefined_ids' = get_predefined_ids(topic_files.ids_yaml)
                /\ IF ChunkOverlap > chunk_size
                   THEN pc' = "error" /\ error' = "ValueError"
                   ELSE pc' = "constructed" /\ error' = "none"
    /\ UNCHANGED <<data_dir, topic_files, separate_in_chunks, chunk_size>>

\* save_data up to its loop: extract_txt_from_pdf and the listing of the .txt files
SaveData ==
    /\ UNCHANGED reviewVars
    /\ pc = "constructed"
    /\ IF data_dir = Missing
       THEN /\ pc' = "error"
            /\ error' = "FileNotFoundError"
            /\ UNCHANGED <<data_dir, txt_files>>
       ELSE /\ data_dir' = Dir(extract_txt_from_pdf(data_dir[2]))
            /\ txt_files' \in Orders(TxtFiles(data_dir'[2]))
            /\ pc' = "saving"
            /\ UNCHANGED error
    /\ UNCHANGED <<topic_files, chroma, run, reset, context_data, metadata_entries,
                   url_mapping, predefined_ids, separate_in_chunks, chunk_size,
                   doc_chunks, added, failed, before, arg, ret>>

\* one turn of save_data's outer loop: process_txt of the next file
ProcessTxt ==
    /\ UNCHANGED reviewVars
    /\ pc = "saving"
    /\ doc_chunks = <<>>
    /\ txt_files # <<>>
    /\ LET txt_file == Head(txt_files)
           documents == process_txt(txt_file, data_dir[2][txt_file],
                                    separate_in_chunks, chunk_size,
                                    metadata_entries, url_mapping, predefined_ids)
       IN  IF Raised(documents)
           THEN /\ pc' = "error"
                /\ error' = documents[2]
                /\ UNCHANGED <<txt_files, doc_chunks>>
           ELSE /\ doc_chunks' = documents[2]
                /\ txt_files' = Tail(txt_files)
                /\ UNCHANGED <<pc, error>>
    /\ UNCHANGED <<data_dir, topic_files, chroma, run, reset, context_data,
                   metadata_entries, url_mapping, predefined_ids,
                   separate_in_chunks, chunk_size, added, failed, before,
                   arg, ret>>

\* one turn of save_data's inner loop: add_to_chroma of the next chunk
AddToChroma ==
    /\ UNCHANGED reviewVars
    /\ pc = "saving"
    /\ doc_chunks # <<>>
    /\ chroma' = add_to_chroma(chroma, Head(doc_chunks), run)
    /\ doc_chunks' = Tail(doc_chunks)
    /\ added' = added + 1
    /\ UNCHANGED <<failed, data_dir, topic_files, pc, error, run, reset, context_data,
                   metadata_entries, url_mapping, predefined_ids,
                   separate_in_chunks, chunk_size, txt_files, before, arg, ret>>

\* where save_data's caller stands after add_to_chroma raised and the
\* exception was swallowed
UpsertFailureOutcome_Swallowed == "saving"

\* where save_data's caller stands after add_to_chroma raised: save_data has
\* no handler around the call, the exception leaves it
UpsertFailureOutcome == "error"

\* one turn of save_data's inner loop in which the index adapter fails: the
\* collection is not written
AddToChromaFails ==
    /\ UNCHANGED reviewVars
    /\ pc = "saving"
    /\ doc_chunks # <<>>
    /\ added' = added + 1
    /\ failed' = failed + 1
    /\ pc' = UpsertFailureOutcome
    /\ error' = IF pc' = "error" THEN "AdapterError" ELSE error
    /\ doc_chunks' = IF pc' = "error" THEN doc_chunks ELSE Tail(doc_chunks)
    /\ UNCHANGED <<data_dir, topic_files, chroma, run, reset, context_data,
                   metadata_entries, url_mapping, predefined_ids,
                   separate_in_chunks, chunk_size, txt_files, before, arg, ret>>

\* save_data returns
Finish ==
    /\ UNCHANGED reviewVars
    /\ pc = "saving"
    /\ doc_chunks = <<>>
    /\ txt_files = <<>>
    /\ pc' = "done"
    /\ UNCHANGED <<data_dir, topic_files, chroma, error, run, reset, context_data,
                   metadata_entries, url_mapping, predefined_ids,
                   separate_in_chunks, chunk_size, txt_files, doc_chunks, added,
                   failed,
                   before, arg, ret>>

\* a caller looks a document's context up on the manager
GetContextFromFilename(basename) ==
    /\ UNCHANGED reviewVars
    /\ pc = "done"
    /\ arg' = <<"get_context_from_filename", basename>>
    /\ ret' = get_context_from_filename(context_data, basename)
    /\ UNCHANGED <<data_dir, topic_files, chroma, pc, error, run, reset,
                   context_data, metadata_entries, url_mapping, predefined_ids,
                   separate_in_chunks, chunk_size, txt_files, doc_chunks, added,
                   failed,
                   before>>

Next ==
    \/ \E r \in BOOLEAN : Construct(r)
    \/ SaveData
    \/ ProcessTxt
    \/ AddToChroma
    \/ AddToChromaFails
    \/ Finish
    \/ \E f \in {"a.txt", "b.txt"} : GetContextFromFilename(f)

Spec == Init /\ [][Next]_vars

-----------------------------------------------------------------------------
(* calculate_chunk_id called on its own, over every metadata dict and       *)
(* predefined-id table of a small universe                                  *)

NoKey == <<"nokey">>

\* the dict holding the given fields, without those given as NoKey
MetadataOf(source, url, chunk_number) ==
    LET all == [doc_name |-> source, url |-> url, chunk_number |-> chunk_number]
    IN  [k \in {x \in DOMAIN all : all[x] # NoKey} |-> all[k]]

ResolveSources == {NoKey, PyStr("a.txt"), PyStr("b.txt")}
ResolveUrls == {NoKey, None, PyStr(""), PyStr("u")}
ResolveNumbers == {NoKey} \cup {PyInt(n) : n \in 0..MaxChunkSize}

ResolveIds ==
    { EmptyDict,
      PyStr("a.txt") :> PyStr("P"),
      PyStr("u") :> PyStr("Q"),
      (PyStr("a.txt") :> PyStr("P")) @@ (PyStr("u") :> PyStr("Q")),
      (PyStr("b.txt") :> PyStr("P")) @@ (PyStr("") :> PyStr("Q")) }

InitResolve ==
    /\ NoReview
    /\ pc = "resolve"
    /\ predefined_ids \in ResolveIds
    /\ \E s \in ResolveSources, u \in ResolveUrls, n \in ResolveNumbers :
           arg = <<"calculate_chunk_id", MetadataOf(s, u, n)>>
    /\ ret = NoCall
    /\ data_dir = Missing
    /\ topic_files = [metadata_json |-> Absent, url_mapping_yml |-> Absent,
                      ids_yaml |-> Absent, context_data_yaml |-> Absent]
    /\ chroma = EmptyDict
    /\ error = "none"
    /\ run = 0
    /\ reset = FALSE
    /\ context_data = None
    /\ metadata_entries = <<>>
    /\ url_mapping = EmptyDict
    /\ separate_in_chunks = TRUE
    /\ chunk_size = MaxChunkSize
    /\ txt_files = <<>>
    /\ doc_chunks = <<>>
    /\ added = 0
    /\ failed = 0
    /\ before = [records |-> EmptyDict, complete |-> FALSE]

CalculateChunkId ==
    /\ UNCHANGED reviewVars
    /\ pc = "resolve"
    /\ ret = NoCall
    /\ ret' = Return(calculate_chunk_id(arg[2], predefined_ids))
    /\ UNCHANGED <<data_dir, topic_files, chroma, pc, error, run, reset,
                   context_data, metadata_entries, url_mapping, predefined_ids,
                   separate_in_chunks, chunk_size, txt_files, doc_chunks, added,
                   failed,
                   before, arg>>

SpecResolve == InitResolve /\ [][CalculateChunkId]_vars

-----------------------------------------------------------------------------
(* process_txt's chunking called on its own, over every body of up to       *)
(* MaxLen characters                                                        *)

MaxLen == 3

Alphabet == {"a", " ", "\n"}

RECURSIVE Texts(_)
Texts(n) ==
    IF n = 0 THEN {<<>>}
    ELSE LET shorter == Texts(n - 1)
         IN  shorter \cup {Append(t, c) : t \in shorter, c \in Alphabet}

InitSplit ==
    /\ NoReview
    /\ pc = "split"
    /\ \E c \in Configs : /\ separate_in_chunks = c[1]
                          /\ chunk_size = c[2]
                          /\ chunk_size >= ChunkOverlap
    /\ \E t \in Texts(MaxLen) : arg = <<"split_text_into_chunks", t>>
    /\ ret = NoCall
    /\ data_dir = Missing
    /\ topic_files = [metadata_json |-> Absent, url_mapping_yml |-> Absent,
                      ids_yaml |-> Absent, context_data_yaml |-> Absent]
    /\ chroma = EmptyDict
    /\ error = "none"
    /\ run = 0
    /\ reset = FALSE
    /\ context_data = None
    /\ metadata_entries = <<>>
    /\ url_mapping = EmptyDict
    /\ predefined_ids = EmptyDict
    /\ txt_files = <<>>
    /\ doc_chunks = <<>>
    /\ added = 0
    /\ failed = 0
    /\ before = [records |-> EmptyDict, complete |-> FALSE]

SplitTextIntoChunks ==
    /\ UNCHANGED reviewVars
    /\ pc = "split"
    /\ ret = NoCall
    /\ ret' = Return(ContentChunks(arg[2], separate_in_chunks, chunk_size))
    /\ UNCHANGED <<data_dir, topic_files, chroma, pc, error, run, reset,
                   context_data, metadata_entries, url_mapping, predefined_ids,
                   separate_in_chunks, chunk_size, txt_files, doc_chunks, added,
                   failed,
                   before, arg>>

SpecSplit == InitSplit /\ [][SplitTextIntoChunks]_vars

-----------------------------------------------------------------------------
(* load_txt_metadata called on its own, over every body of up to MaxLines   *)
(* lines of a few kinds                                                     *)

MaxLines == 4

LineKinds ==
    { <<>>,
      <<"a">>,
      FilenameMarker,
      <<" ">> \o FilenameMarker,
      BranchMarker,
      BranchMarker \o CodeMarker,
      CodeMarker }

\* the file holding the given lines
RECURSIVE JoinLines(_)
JoinLines(lines) ==
    IF Len(lines) = 1 THEN lines[1]
    ELSE lines[1] \o <<"\n">> \o JoinLines(Tail(lines))

InitType ==
    /\ NoReview
    /\ pc = "type"
    /\ \E n \in 1..MaxLines : \E lines \in [1..n -> LineKinds] :
           arg = <<"load_txt_metadata", lines>>
    /\ ret = NoCall
    /\ data_dir = Missing
    /\ topic_files = [metadata_json |-> Absent, url_mapping_yml |-> Absent,
                      ids_yaml |-> Absent, context_data_yaml |-> Absent]
    /\ chroma = EmptyDict
    /\ error = "none"
    /\ run = 0
    /\ reset = FALSE
    /\ context_data = None
    /\ metadata_entries = <<>>
    /\ url_mapping = EmptyDict
    /\ predefined_ids = EmptyDict
    /\ separate_in_chunks = TRUE
    /\ chunk_size = MaxChunkSize
    /\ txt_files = <<>>
    /\ doc_chunks = <<>>
    /\ added = 0
    /\ failed = 0
    /\ before = [records |-> EmptyDict, complete |-> FALSE]

LoadTxtMetadata ==
    /\ UNCHANGED reviewVars
    /\ pc = "type"
    /\ ret = NoCall
    /\ ret' = Return(load_txt_metadata(A_txt, JoinLines(arg[2]), 0, metadata_entries,
                                       url_mapping, predefined_ids))
    /\ UNCHANGED <<data_dir, topic_files, chroma, pc, error, run, reset,
                   context_data, metadata_entries, url_mapping, predefined_ids,
                   separate_in_chunks, chunk_size, txt_files, doc_chunks, added,
                   failed, before, arg>>

SpecType == InitType /\ [][LoadTxtMetadata]_vars

-----------------------------------------------------------------------------
(* The chapter review loop of seperate_pdf_into_chapters.main.  A section   *)
(* is a dict with title, content and search_by_title; a key it lacks is     *)
(* held as None.  The text read from the pdf and the user's edits are not    *)
(* modelled: the text a section is given is any of SectionTexts.            *)

MaxSections == 3

SectionTexts == {PyStr(""), PyStr("x")}

Section(k, content) ==
    [title |-> PyStr(ToString(k)), content |-> content, search_by_title |-> None]

\* the lists get_saved_config or get_content_list_from_pdf may give
ContentLists ==
    UNION {{[k \in 1..n |-> Section(k, c[k])] : c \in [1..n -> {None, PyStr("x")}]} :
           n \in 1..MaxSections}

\* list[i] with Python's indices: the position in the sequence, 0 when out of range
PyIndex(list, i) ==
    IF 0 <= i /\ i < Len(list) THEN i + 1
    ELSE IF i < 0 /\ -i <= Len(list) THEN Len(list) + i + 1
    ELSE 0

\* truthiness of current_content.get("content", None)
Truthy(v) == v # None /\ v # PyStr("")

\* list.remove(item): the list without the first element equal to item
RemoveFirst(list, item) ==
    LET k == CHOOSE j \in 1..Len(list) :
                 list[j] = item /\ \A h \in 1..(j - 1) : list[h] # item
    IN  SubSeq(list, 1, k - 1) \o SubSeq(list, k + 1, Len(list))

InitReview ==
    /\ pc = "review"
    /\ content_list \in ContentLists
    /\ index_i = 0
    /\ back_flag = FALSE
    /\ arg = NoCall
    /\ ret = NoCall
    /\ data_dir = Missing
    /\ topic_files = [metadata_json |-> Absent, url_mapping_yml |-> Absent,
                      ids_yaml |-> Absent, context_data_yaml |-> Absent]
    /\ chroma = EmptyDict
    /\ error = "none"
    /\ run = 0
    /\ reset = FALSE
    /\ context_data = None
    /\ metadata_entries = <<>>
    /\ url_mapping = EmptyDict
    /\ predefined_ids = EmptyDict
    /\ separate_in_chunks = TRUE
    /\ chunk_size = MaxChunkSize
    /\ txt_files = <<>>
    /\ doc_chunks = <<>>
    /\ added = 0
    /\ failed = 0
    /\ before = [records |-> EmptyDict, complete |-> FALSE]

\* the loop is at its head with a section to look at
AtSection == pc = "review" /\ index_i < Len(content_list)

\* the section is shown and the user asked: the index is good and the section
\* is not skipped
Prompted ==
    /\ AtSection
    /\ PyIndex(content_list, index_i) # 0
    /\ ~(Truthy(content_list[PyIndex(content_list, index_i)].content) /\ ~back_flag)

\* "if i >= len(content_list): break"
Break ==
    /\ UNCHANGED ingestVars
    /\ pc = "review"
    /\ index_i >= Len(content_list)
    /\ pc' = "finished"
    /\ UNCHANGED <<error, reviewVars>>

\* "current_content = content_list[i]" raises IndexError
IndexFails ==
    /\ UNCHANGED ingestVars
    /\ AtSection
    /\ PyIndex(content_list, index_i) = 0
    /\ pc' = "error"
    /\ error' = "IndexError"
    /\ UNCHANGED reviewVars

\* a section that has content is passed over
SkipSection ==
    /\ UNCHANGED ingestVars
    /\ AtSection
    /\ PyIndex(content_list, index_i) # 0
    /\ Truthy(content_list[PyIndex(content_list, index_i)].content) /\ ~back_flag
    /\ index_i' = index_i + 1
    /\ UNCHANGED <<pc, error, content_list, back_flag>>

\* command b
Back ==
    /\ UNCHANGED ingestVars
    /\ Prompted
    /\ back_flag' = TRUE
    /\ index_i' = index_i - 1
    /\ UNCHANGED <<pc, error, content_list>>

\* command t
EditTitle ==
    /\ UNCHANGED ingestVars
    /\ Prompted
    /\ back_flag' = FALSE
    /\ content_list' = [content_list EXCEPT
           ![PyIndex(content_list, index_i)].search_by_title = PyStr("n")]
    /\ UNCHANGED <<pc, error, index_i>>

\* command nt: next_content is content_list[i+1] if i+1 < len, else None, and
\* None cannot be assigned into
EditNextTitle ==
    /\ UNCHANGED ingestVars
    /\ Prompted
    /\ back_flag' = FALSE
    /\ IF index_i + 1 < Len(content_list)
       THEN /\ content_list' = [content_list EXCEPT
                   ![PyIndex(content_list, index_i + 1)].search_by_title = PyStr("n")]
            /\ UNCHANGED <<pc, error>>
       ELSE /\ pc' = "error"
            /\ error' = "TypeError"
            /\ UNCHANGED content_list
    /\ UNCHANGED index_i

\* command r
RemoveSection ==
    /\ UNCHANGED ingestVars
    /\ Prompted
    /\ back_flag' = FALSE
    /\ content_list' = RemoveFirst(content_list,
                                   content_list[PyIndex(content_list, index_i)])
    /\ UNCHANGED <<pc, error, index_i>>

\* command e, and any other answer (continue): the text is stored and the
\* loop moves on
StoreSection ==
    /\ UNCHANGED ingestVars
    /\ Prompted
    /\ back_flag' = FALSE
    /\ \E text \in SectionTexts :
           content_list' = [content_list EXCEPT
               ![PyIndex(content_list, index_i)].content = text]
    /\ index_i' = index_i + 1
    /\ UNCHANGED <<pc, error>>

NextReview ==
    \/ Break
    \/ IndexFails
    \/ SkipSection
    \/ Back
    \/ EditTitle
    \/ EditNextTitle
    \/ RemoveSection
    \/ StoreSection

SpecReview == InitReview /\ [][NextReview]_vars

-----------------------------------------------------------------------------
(* Properties *)

Constructed == pc \in {"constructed", "saving", "done"}

Resolved == pc = "resolve" /\ ret[1] = "return"
ResolveSource == DictGet(arg[2], "doc_name")
ResolveUrl == DictGet(arg[2], "url")
ResolveNumber == DictGet(arg[2], "chunk_number")

\* a field of the fallback id with None as the text None
RenderNoneAsText(v) ==
    IF v = None THEN "None" ELSE IF v[1] = "int" THEN ToString(v[2]) ELSE v[2]

\* a field of the fallback id with None as the empty string
RenderNoneAsEmpty(v) ==
    IF v = None THEN "" ELSE IF v[1] = "int" THEN ToString(v[2]) ELSE v[2]

\* C1: the resolved id is predefinedIds[docName] when the document name is a
\* key; otherwise predefinedIds[url] when the url is a key; otherwise the
\* composite of chunk number, url and document name.
C1_FirstMatchWins ==
    Resolved =>
        LET id == ret[2]["id"]
        IN  /\ ResolveSource \in DOMAIN predefined_ids
                => id = predefined_ids[ResolveSource]
            /\ ResolveSource \notin DOMAIN predefined_ids
                  /\ ResolveUrl \in DOMAIN predefined_ids
                => id = predefined_ids[ResolveUrl]
            /\ ResolveSource \notin DOMAIN predefined_ids
                  /\ ResolveUrl \notin DOMAIN predefined_ids
                => id = PyStr(RenderNoneAsText(ResolveNumber) \o "|"
                              \o RenderNoneAsText(ResolveUrl) \o "|"
                              \o RenderNoneAsText(ResolveSource))

\* C1 witness: document name and url are both keys, with different entries
C1_BothKeys ==
    /\ Resolved
    /\ ResolveSource \in DOMAIN predefined_ids
    /\ ResolveUrl \in DOMAIN predefined_ids
    /\ predefined_ids[ResolveSource] # predefined_ids[ResolveUrl]

NeitherKey ==
    /\ ResolveSource \notin DOMAIN predefined_ids
    /\ ResolveUrl \notin DOMAIN predefined_ids

\* C2 as stated: with neither key present the id is
\* "{chunkNumber}|{url}|{sourceName}" with a None field rendered as the empty
\* string.
C2_NoneAsEmptyString ==
    Resolved /\ NeitherKey =>
        ret[2]["id"] = PyStr(RenderNoneAsEmpty(ResolveNumber) \o "|"
                             \o RenderNoneAsEmpty(ResolveUrl) \o "|"
                             \o RenderNoneAsEmpty(ResolveSource))

\* C2 amended: with neither key present the id is
\* "{chunkNumber}|{url}|{sourceName}", both delimiters always present, an
\* empty string field rendered as the empty string and a None field rendered
\* as the four characters None.
C2_NoneAsTextNone ==
    Resolved /\ NeitherKey =>
        ret[2]["id"] = PyStr(RenderNoneAsText(ResolveNumber) \o "|"
                             \o RenderNoneAsText(ResolveUrl) \o "|"
                             \o RenderNoneAsText(ResolveSource))

\* C2 witness: the fallback taken for a document without url
C2_FallbackWithoutUrl ==
    /\ Resolved
    /\ NeitherKey
    /\ ResolveUrl = None
    /\ ResolveSource = PyStr("a.txt")
    /\ ResolveNumber = PyInt(1)

\* C3 as stated: after a run that started from an empty collection the
\* collection holds as many records as chunks were produced.
C3_OneRecordPerChunk ==
    pc = "done" /\ (reset \/ DOMAIN before.records = {})
        => Cardinality(DOMAIN chroma) = added

\* the ids calculate_chunk_id gives the chunks of the files of the directory
DerivedIds ==
    IF data_dir = Missing THEN {}
    ELSE UNION {{load_txt_metadata(f, data_dir[2][f], i - 1, metadata_entries,
                                   url_mapping, predefined_ids)["id"] :
                    i \in 1..Len(ContentChunks(data_dir[2][f], separate_in_chunks,
                                               chunk_size))} :
                f \in TxtFiles(data_dir[2])}

\* C4: a second run over the same documents and tables, without reset, leaves
\* the id set as the first run left it, and every id the documents derive
\* holds what the second run wrote (any other record is as it was).
C4_Idempotent ==
    pc = "done" /\ ~reset /\ before.complete =>
        /\ DOMAIN chroma = DOMAIN before.records
        /\ \A id \in DOMAIN chroma :
               IF id \in DerivedIds THEN chroma[id].run = run
               ELSE chroma[id] = before.records[id]

\* C4 witness: a second run without reset has completed and overwritten records
C4_SecondRunDone ==
    /\ pc = "done"
    /\ ~reset
    /\ before.complete
    /\ run = 2
    /\ added > 1
    /\ \E id \in DOMAIN chroma : chroma[id].run = 2

\* C5: in a run with reset the collection is empty before the first upsert,
\* holds only ids of this run's documents while the run adds them, and holds
\* exactly those ids when the run has completed.
C5_ResetSemantics ==
    reset =>
        /\ pc = "constructed" => DOMAIN chroma = {}
        /\ pc = "saving" => /\ DOMAIN chroma \subseteq DerivedIds
                            /\ added = 0 => DOMAIN chroma = {}
        /\ pc = "done" => DOMAIN chroma = DerivedIds

\* C5 witness: a run with reset completed on a collection that held an id its
\* documents do not derive
C5_ResetDroppedStale ==
    /\ pc = "done"
    /\ reset
    /\ StaleId \in DOMAIN before.records
    /\ added > 0

PrimaryInputMissing ==
    data_dir = Missing \/ topic_files.metadata_json = Absent

\* C6 as stated: a run that aborts on a missing documents directory or
\* metadata.json leaves the collection as it was before the run.
C6_AbortBeforeMutation ==
    pc = "error" /\ PrimaryInputMissing => chroma = before.records

\* C7 as stated: an absent side-table file gives the table's empty default,
\* and a lookup by filename in it returns None instead of raising.
C7_AbsentTableIsEmpty ==
    /\ Constructed /\ topic_files.ids_yaml = Absent => DOMAIN predefined_ids = {}
    /\ Constructed /\ topic_files.url_mapping_yml = Absent => DOMAIN url_mapping = {}
    /\ Constructed /\ topic_files.context_data_yaml = Absent
          /\ arg[1] = "get_context_from_filename"
          => ret = None

RecordsHanded ==
    {doc_chunks[i].metadata : i \in 1..Len(doc_chunks)}
        \cup {chroma[id].metadata : id \in DOMAIN chroma}

\* C8: no metadata handed to the index maps a key to None: a document without
\* url mapping has no url key, a None field of its metadata.json entry is
\* gone, and the key id is always there.
C8_NullStripping ==
    \A m \in RecordsHanded :
        /\ \A k \in DOMAIN m : m[k] # None
        /\ "id" \in DOMAIN m
        /\ Constructed /\ DictGet(url_mapping, m["doc_name"][2]) = None
              => "url" \notin DOMAIN m
        /\ Constructed
              => LET entry == find_metadata_for_txt(metadata_entries,
                                                    m["doc_name"][2])
                 IN  \A k \in DOMAIN entry : entry[k] = None => k \notin DOMAIN m

\* C8 witness: a record of a.txt was added whose url and page were None
C8_StrippedRecordAdded ==
    /\ pc = "saving"
    /\ topic_files.url_mapping_yml = Absent
    /\ topic_files.metadata_json # Absent
    /\ "page" \in DOMAIN find_metadata_for_txt(metadata_entries, "a.txt")
    /\ \E id \in DOMAIN chroma :
           /\ chroma[id].run = run
           /\ chroma[id].metadata["doc_name"] = PyStr("a.txt")
           /\ "title" \in DOMAIN chroma[id].metadata

\* C9 as stated: the chunks of a body, concatenated in order, are the body.
C9_ChunkCoverage ==
    pc = "split" /\ ret[1] = "return" => Flatten(ret[2]) = arg[2]

\* C10: in a run without reset every id the collection held when the run
\* started is in the collection in every state of the run.
C10_NoResetKeepsIds ==
    run >= 1 /\ ~reset => DOMAIN before.records \subseteq DOMAIN chroma

\* C10 witness: a run without reset added records to a collection that held one
C10_GrewWithoutReset ==
    /\ pc = "done"
    /\ ~reset
    /\ DOMAIN before.records # {}
    /\ added > 0

\* C11: a run in which an upsert failed has ended in an error its caller
\* sees; it neither goes on adding chunks nor completes normally.
C11_UpsertFailureSurfaces ==
    failed > 0 => pc = "error" /\ error = "AdapterError"

\* C11 witness: the adapter failed on a later chunk of a run, after an upsert
\* that went through
C11_FailedAfterSuccess ==
    /\ failed = 1
    /\ added > 1
    /\ pc = "error"
    /\ DOMAIN chroma # DOMAIN before.records

Typed == pc = "type" /\ ret[1] = "return"
TypedLines == arg[2]
FirstLineIsFilename == StartsWith(TypedLines[1], FilenameMarker)
HasCodeMarker == \E i \in 1..Len(TypedLines) : FirstMatch(TypedLines[i], CodeMarker) # 0

\* C12 as stated: the type is code exactly when the first line starts with
\* Filename:, a line starting with Branch: is among the first three lines, and
\* three grave accents occur in the body; otherwise it is text.
C12_BranchWithinFirstLines ==
    Typed =>
        (ret[2]["type"] = PyStr("code")
            <=> /\ FirstLineIsFilename
                /\ \E i \in 1..3 :
                       Len(TypedLines) >= i /\ StartsWith(TypedLines[i], BranchMarker)
                /\ HasCodeMarker)
        /\ ret[2]["type"] \in {PyStr("code"), PyStr("text")}

\* C12 amended: the type is code exactly when the first line starts with
\* Filename:, the third line exists and starts with Branch:, and three grave
\* accents occur in the body; otherwise it is text.
C12_BranchOnThirdLine ==
    Typed =>
        (ret[2]["type"] = PyStr("code")
            <=> /\ FirstLineIsFilename
                /\ Len(TypedLines) >= 3
                /\ StartsWith(TypedLines[3], BranchMarker)
                /\ HasCodeMarker)
        /\ ret[2]["type"] \in {PyStr("code"), PyStr("text")}

\* C12 witness: a body was classified as code
C12_ClassifiedCode ==
    /\ Typed
    /\ ret[2]["type"] = PyStr("code")
    /\ Len(TypedLines) = 4

\* C13 as stated: at every iteration of the review loop the index i is
\* within 0..len(content_list); BACK on the first section does not take it
\* below 0.
C13_IndexInRange ==
    pc = "review" => 0 <= index_i /\ index_i <= Len(content_list)

=============================================================================
